---- MODULE Spec2Model ----
(***************************************************************************)
(* Model of the retrieval-augmented-generation pipeline of nextjs-gpt:     *)
(*   createPineconeIndex, updatePinecone (ingestion) and                   *)
(*   queryPineconeVectorStoreAndQueryLLM (query + streamed completion).    *)
(* Every await of the source is a point where the function is suspended;   *)
(* the external services (embedding, vector index, completion) are the     *)
(* environment and resolve or reject the awaited call.                     *)
(***************************************************************************)
EXTENDS Integers, Sequences, FiniteSets, TLC

VARIABLES
    existing,          \* names of the indexes the service holds
    store,             \* store[name]: the records the index holds
    cpc,               \* createPineconeIndex: position
    cName,             \* createPineconeIndex: indexName
    existingIndexes,   \* createPineconeIndex: result of listIndexes
    createLog,         \* createIndex requests issued, in order
    cTrace,            \* createPineconeIndex: what the current call has done, in order
    upc,               \* updatePinecone: position
    uName,             \* updatePinecone: indexName
    docs,              \* updatePinecone: docs
    run,               \* number of the current updatePinecone call
    d,                 \* position in docs (1-based)
    chunks,            \* chunks of the current document
    embeddingsArrays,  \* embeddings of the current document
    idx,               \* loop index (0-based)
    batch,             \* local batch
    embedLog,          \* embedDocuments calls issued: [run, doc, n, res]
    upsertLog,         \* upsert calls issued: [run, doc, name, vectors, chk, res]
    uError,            \* error updatePinecone rejected with
    checked,           \* index names a completed createPineconeIndex call has
                       \* found listed, or created and waited for
    heldAfter,         \* per completed updatePinecone call: [name, ids held]
    qpc,               \* per request: position of queryPineconeVectorStoreAndQueryLLM
    queryResponse,     \* per request: matches returned by index.query
    qError,            \* per request: error the call rejected with
    svcLog,            \* per request: embedQuery and index.query calls issued, in order
    callLog,           \* per request: chain.call invocations issued
    llm,               \* per request: state of the completion run
    llmError,          \* per request: error the completion run failed with
    generated,         \* per request: tokens generated by the completion service
    late,              \* per request: kinds of the callbacks delivered after the run ended
    st                 \* per request: the TransformStream, its writer, the callbacks
                       \* in progress and what the consumer has read

(***************************************************************************)
(* Bounds of the model.                                                    *)
(***************************************************************************)
MaxDocs == 2
MaxRuns == 2
MaxTokens == 3
MaxLate == 2

(***************************************************************************)
(* Program constants.                                                      *)
(***************************************************************************)
batchSize == 10
chunkSize == 1000

IndexNames == {"i1", "i2"}
Errors == {"e1", "e2"}
NoError == "none"

\* The sample documents: a source (metadata.source, a character sequence) and
\* the length of its text; the texts split into 0, 3, 10 and 11 chunks.
Docs == {[source |-> <<"a">>, len |-> 2500],
         [source |-> <<"a">>, len |-> 10500],
         [source |-> <<"a", "_", "1">>, len |-> 0],
         [source |-> <<"a", "_", "1">>, len |-> 10000]}

RECURSIVE SeqsUpTo(_, _)
SeqsUpTo(S, n) ==
    IF n = 0 THEN {<<>>}
    ELSE LET shorter == SeqsUpTo(S, n - 1)
         IN  shorter \cup {Append(s, x) : s \in {t \in shorter : Len(t) = n - 1}, x \in S}

Range(s) == {s[i] : i \in 1..Len(s)}

Min(a, b) == IF a < b THEN a ELSE b

\* Decimal digits of a number, as `${idx}` prints it.
Digit(n) == <<"0", "1", "2", "3", "4", "5", "6", "7", "8", "9">>[n + 1]

RECURSIVE Decimal(_)
Decimal(n) == IF n < 10 THEN <<Digit(n)>> ELSE Decimal(n \div 10) \o <<Digit(n % 10)>>

\* Mutant: the id is numbered by a counter that runs over the calls.
VectorIdPerCall(txtPath, i) == txtPath \o <<"_">> \o Decimal(i + Len(upsertLog))

\* `${txtPath}_${idx}`
VectorId(txtPath, i) == txtPath \o <<"_">> \o Decimal(i)

\* textSplitter.createDocuments([text]): the ordered chunks of a text of len
\* characters, each at most chunkSize characters long; a chunk is the slice
\* of the text it covers and whether it spans a line break.
createDocuments(len) ==
    LET n == (len + chunkSize - 1) \div chunkSize
    IN  [k \in 1..n |->
            [pageContent |-> [from |-> (k - 1) * chunkSize,
                              to |-> Min(k * chunkSize, len),
                              nl |-> TRUE],
             loc |-> k]]

\* chunk.pageContent.replace(/\n/g, " ")
ReplaceNewlines(content) == [content EXCEPT !.nl = FALSE]

\* What embedDocuments returns for a list of texts: one embedding per text,
\* in order.
embedDocuments(texts) == [k \in 1..Len(texts) |-> <<"emb", texts[k].from, texts[k].to>>]

\* Mutant: ids numbered from 1.
MakeVectorOneBased(txtPath, chs, embs, i) ==
    [id |-> VectorId(txtPath, i + 1),
     values |-> embs[i + 1],
     metadata |-> [loc |-> chs[i + 1].loc,
                   pageContent |-> chs[i + 1].pageContent,
                   txtPath |-> txtPath]]

\* The vector record built for chunk idx (0-based) of the current document.
MakeVector(txtPath, chs, embs, i) ==
    [id |-> VectorId(txtPath, i),
     values |-> embs[i + 1],
     metadata |-> [loc |-> chs[i + 1].loc,
                   pageContent |-> chs[i + 1].pageContent,
                   txtPath |-> txtPath]]

\* Mutant: every vector is upserted on its own.
ShouldUpsertEachItem(b, i, n) == Len(b) >= 1

\* Mutant: the last, partial batch is not flushed.
ShouldUpsertFullOnly(b, i, n) == Len(b) = batchSize

\* When batch is full or it's the last item, upsert the vectors.
ShouldUpsert(b, i, n) == Len(b) = batchSize \/ i = n - 1

\* The index after an upsert: records are keyed by id, a record with an id
\* already held is overwritten.
Upserted(held, vectors) ==
    {v \in held : \A k \in 1..Len(vectors) : vectors[k].id # v.id}
        \cup {vectors[k] : k \in 1..Len(vectors)}

ingestVars == <<existing, store, cpc, cName, existingIndexes, createLog, cTrace, upc, uName,
                docs, run, d, chunks, embeddingsArrays, idx, batch, embedLog,
                upsertLog, uError, checked, heldAfter>>

queryVars == <<qpc, queryResponse, qError, svcLog, callLog, llm, llmError, generated, late, st>>

vars == <<ingestVars, queryVars>>


(***************************************************************************)
(* queryPineconeVectorStoreAndQueryLLM: requests, tokens and the stream.   *)
(***************************************************************************)
Requests == {"r1", "r2"}

\* Results index.query may return: no match, or matches with their
\* metadata.pageContent.
QueryResults == {<<>>, <<"p", "q">>}

\* Tokens the completion service may generate, as sequences of code points.
Tokens == {<<72, 105>>, <<233>>, <<8364>>}

\* The k-th token the completion of request r generates: the tokens of a
\* completion differ from one another and from those of the other request
\* at the same position.
TokenOf(r, k) ==
    IF r = "r1"
    THEN <<<<72, 105>>, <<233>>, <<8364>>>>[((k - 1) % 3) + 1]
    ELSE <<<<233>>, <<8364>>, <<72, 105>>>>[((k - 1) % 3) + 1]

\* The UTF-8 bytes of one code point, as TextEncoder produces them (a lone
\* surrogate is replaced by U+FFFD).
Utf8(cp) ==
    IF cp < 128 THEN <<cp>>
    ELSE IF cp < 2048 THEN <<192 + (cp \div 64), 128 + (cp % 64)>>
    ELSE IF cp \in 55296..57343 THEN <<239, 191, 189>>
    ELSE IF cp < 65536
         THEN <<224 + (cp \div 4096), 128 + ((cp \div 64) % 64), 128 + (cp % 64)>>
         ELSE <<240 + (cp \div 262144), 128 + ((cp \div 4096) % 64),
                128 + ((cp \div 64) % 64), 128 + (cp % 64)>>

\* encoder.encode(`${token}`)
RECURSIVE encode(_)
encode(token) == IF token = <<>> THEN <<>> ELSE Utf8(Head(token)) \o encode(Tail(token))

EncodeAll(toks) == [k \in 1..Len(toks) |-> encode(toks[k])]

IsPrefix(a, b) == Len(a) <= Len(b) /\ \A k \in 1..Len(a) : a[k] = b[k]

\* High water mark of the writable side of new TransformStream().
writableHighWaterMark == 1

\* A request for which no stream has been created.
NoStream ==
    [state |-> "none", queue |-> <<>>, inflight |-> <<>>, closeReq |-> FALSE,
     storedError |-> NoError, tbp |-> FALSE, rstate |-> "none",
     readPending |-> FALSE, waiters |-> <<>>, jobs |-> <<>>,
     consumed |-> <<>>, consumerEnd |-> "none"]

\* new TransformStream() with its writer: the writable side is writable and
\* empty, the transform holds back writes until the readable side is pulled.
NewStream ==
    [state |-> "writable", queue |-> <<>>, inflight |-> <<>>, closeReq |-> FALSE,
     storedError |-> NoError, tbp |-> TRUE, rstate |-> "readable",
     readPending |-> FALSE, waiters |-> <<>>, jobs |-> <<>>,
     consumed |-> <<>>, consumerEnd |-> "reading"]

\* writer.ready: rejected once the stream is erroring or errored, pending
\* while the writable side exerts backpressure, resolved otherwise.
ReadyOf(s) ==
    IF s.state \in {"erroring", "errored"} THEN "rej"
    ELSE IF /\ s.state = "writable"
            /\ ~s.closeReq
            /\ Len(s.queue) + Len(s.inflight) >= writableHighWaterMark
         THEN "pending"
         ELSE "ok"

\* Mutant: the continuation that was queued last runs first.
AwaitLifo(s, h) ==
    IF ReadyOf(s) = "pending"
    THEN [s EXCEPT !.waiters = <<h>> \o @]
    ELSE [s EXCEPT !.jobs = <<[h |-> h, rdy |-> ReadyOf(s)]>> \o @]

\* A callback reaches `await writer.ready`: it waits on the pending promise,
\* or its continuation is queued as a job when the promise is settled.
Await(s, h) ==
    IF ReadyOf(s) = "pending"
    THEN [s EXCEPT !.waiters = Append(@, h)]
    ELSE [s EXCEPT !.jobs = Append(@, [h |-> h, rdy |-> ReadyOf(s)])]

\* The ready promise settles: the continuations of the callbacks waiting on
\* it are queued in the order in which they began to wait.
Settle(s) ==
    IF s.waiters # <<>> /\ ReadyOf(s) # "pending"
    THEN [s EXCEPT !.jobs = @ \o [k \in 1..Len(s.waiters) |->
                                     [h |-> s.waiters[k], rdy |-> ReadyOf(s)]],
                   !.waiters = <<>>]
    ELSE s

\* The writable side closes: the readable side closes with it and a pending
\* read resolves with done.
FinishClose(s) ==
    [s EXCEPT !.state = "closed",
              !.rstate = "closed",
              !.readPending = FALSE,
              !.consumerEnd = IF s.readPending THEN "done" ELSE @]

\* The writable side becomes errored: queued writes are discarded, the
\* readable side is errored and a pending read rejects with the error.
FinishErroring(s) ==
    [s EXCEPT !.state = "errored",
              !.queue = <<>>,
              !.inflight = <<>>,
              !.tbp = FALSE,
              !.rstate = "errored",
              !.readPending = FALSE,
              !.consumerEnd = IF s.readPending THEN s.storedError ELSE @]

\* The writable side starts its next operation when none is in flight: the
\* next queued write, or the close once the queue is empty.
Advance(s) ==
    IF s.state # "writable" \/ s.inflight # <<>> THEN s
    ELSE IF s.queue # <<>>
         THEN [s EXCEPT !.inflight = <<Head(s.queue)>>, !.queue = Tail(s.queue)]
         ELSE IF s.closeReq THEN FinishClose(s) ELSE s

\* writer.write(chunk): rejected unless the stream is writable and not closing.
Write(s, chunk) ==
    IF s.state = "writable" /\ ~s.closeReq
    THEN Advance([s EXCEPT !.queue = Append(@, chunk)])
    ELSE s

\* writer.close(): rejected when closed, errored or already closing.
Close(s) ==
    IF s.state \in {"closed", "errored"} \/ s.closeReq
    THEN s
    ELSE Advance([s EXCEPT !.closeReq = TRUE])

\* Mutant: abort errors the stream whatever its state.
AbortAlways(s, e) ==
    FinishErroring([s EXCEPT !.state = "erroring", !.storedError = e])

\* writer.abort(e): nothing when closed or errored or already aborting; else
\* the stream is erroring, and errored as soon as no write is in flight.
Abort(s, e) ==
    IF s.state \in {"closed", "errored", "erroring"}
    THEN s
    ELSE LET s1 == [s EXCEPT !.state = "erroring", !.storedError = e]
         IN  IF s.inflight = <<>> THEN FinishErroring(s1) ELSE s1

\* Mutant: handleLLMError does not abort the writer.
ContinueNoAbort(s, j) ==
    IF j.rdy = "rej" THEN s
    ELSE IF j.h.kind = "token" THEN Write(s, encode(j.h.tok))
    ELSE IF j.h.kind = "end" THEN Close(s)
    ELSE s

\* The rest of a callback after `await writer.ready`: it throws when the
\* promise was rejected, else it writes, closes or aborts.
Continue(s, j) ==
    IF j.rdy = "rej" THEN s
    ELSE IF j.h.kind = "token" THEN Write(s, encode(j.h.tok))
    ELSE IF j.h.kind = "end" THEN Close(s)
    ELSE Abort(s, j.h.err)

\* The write in flight reaches the transform once the readable side has been
\* pulled: it fails when the stream is erroring, else the chunk goes to the
\* pending read and the writable side moves on.
SinkWrite(s) ==
    IF s.state = "erroring"
    THEN FinishErroring(s)
    ELSE Advance([s EXCEPT !.consumed = Append(@, s.inflight[1]),
                           !.inflight = <<>>,
                           !.readPending = FALSE,
                           !.tbp = TRUE])

\* reader.read() of the consumer: done on a closed stream, the stored error
\* on an errored one, else the read is pending and the transform is pulled.
Read(s) ==
    IF s.rstate = "closed" THEN [s EXCEPT !.consumerEnd = "done"]
    ELSE IF s.rstate = "errored" THEN [s EXCEPT !.consumerEnd = s.storedError]
    ELSE [s EXCEPT !.readPending = TRUE, !.tbp = FALSE]

\* The state of a request's stream in the terms of the specification.
StreamState(s) ==
    IF s.state = "none" THEN "Idle"
    ELSE IF s.state = "closed" THEN "Closed"
    ELSE IF s.state = "errored" THEN "Aborted"
    ELSE "Streaming"

Handler(kind, tok, err) == [kind |-> kind, tok |-> tok, err |-> err]

InitQuery ==
    /\ qpc = [r \in Requests |-> "idle"]
    /\ queryResponse = [r \in Requests |-> <<>>]
    /\ qError = [r \in Requests |-> NoError]
    /\ svcLog = [r \in Requests |-> <<>>]
    /\ callLog = [r \in Requests |-> <<>>]
    /\ llm = [r \in Requests |-> "none"]
    /\ llmError = [r \in Requests |-> NoError]
    /\ generated = [r \in Requests |-> <<>>]
    /\ late = [r \in Requests |-> <<>>]
    /\ st = [r \in Requests |-> NoStream]

InitIngest ==
    /\ InitQuery
    /\ existing \in {{}, {"i1"}}
    /\ store = [n \in IndexNames |-> {}]
    /\ cpc = "idle"
    /\ cName = "i1"
    /\ existingIndexes = {}
    /\ createLog = <<>>
    /\ cTrace = <<>>
    /\ upc = "idle"
    /\ uName = "i1"
    /\ docs \in SeqsUpTo(Docs, MaxDocs)
    /\ run = 0
    /\ d = 1
    /\ chunks = <<>>
    /\ embeddingsArrays = <<>>
    /\ idx = 0
    /\ batch = <<>>
    /\ embedLog = <<>>
    /\ upsertLog = <<>>
    /\ uError = NoError
    /\ checked = {}
    /\ heldAfter = <<>>

createVars == <<cpc, cName, existingIndexes, createLog, cTrace>>
updateNoCheck == <<upc, uName, docs, run, d, chunks, embeddingsArrays, idx, batch,
                   embedLog, upsertLog, uError, heldAfter>>
updateVars == <<updateNoCheck, checked>>

(***************************************************************************)
(* createPineconeIndex                                                     *)
(***************************************************************************)
\* The call: const existingIndexes = await client.listIndexes().  The caller
\* awaits each pipeline function before it calls the next, and stops at the
\* first one that rejects.
CreateCall(name) ==
    /\ cpc \in {"idle", "done"}
    /\ upc \in {"idle", "done"}
    /\ cName' = name
    /\ cpc' = "list"
    /\ existingIndexes' = {}
    /\ cTrace' = <<"listIndexes">>
    /\ UNCHANGED <<queryVars, existing, store, createLog, updateVars>>

\* Mutant: createIndex is issued but neither it nor the delay is awaited.
ListResolveNoAwait ==
    /\ cpc = "list"
    /\ existingIndexes' = existing
    /\ createLog' = IF cName \notin existing
                    THEN Append(createLog, [name |-> cName, metric |-> "cosine"])
                    ELSE createLog
    /\ cTrace' = IF cName \notin existing THEN Append(cTrace, "createIndex") ELSE cTrace
    /\ cpc' = "done"
    /\ checked' = checked \cup {cName}
    /\ UNCHANGED <<queryVars, existing, store, cName, updateNoCheck>>

\* Mutant: createIndex is issued whether or not the name is listed.
ListResolveAlwaysCreate ==
    /\ cpc = "list"
    /\ existingIndexes' = existing
    /\ createLog' = Append(createLog, [name |-> cName, metric |-> "cosine"])
    /\ cTrace' = Append(cTrace, "createIndex")
    /\ cpc' = "create"
    /\ checked' = checked
    /\ UNCHANGED <<queryVars, existing, store, cName, updateNoCheck>>

\* listIndexes resolves; if the name is absent createIndex is issued.
ListResolve ==
    /\ cpc = "list"
    /\ existingIndexes' = existing
    /\ IF cName \notin existing
       THEN /\ createLog' = Append(createLog, [name |-> cName, metric |-> "cosine"])
            /\ cTrace' = Append(cTrace, "createIndex")
            /\ cpc' = "create"
       ELSE /\ createLog' = createLog
            /\ cTrace' = cTrace
            /\ cpc' = "done"
    /\ checked' = IF cName \in existing THEN checked \cup {cName} ELSE checked
    /\ UNCHANGED <<queryVars, existing, store, cName, updateNoCheck>>

\* createIndex resolves; the function now waits for the timeout.
CreateResolve ==
    /\ cpc = "create"
    /\ existing' = existing \cup {cName}
    /\ cpc' = "wait"
    /\ cTrace' = Append(cTrace, "setTimeout")
    /\ UNCHANGED <<queryVars, store, cName, existingIndexes, createLog, updateVars>>

\* setTimeout(resolve, timeout) fires.
TimeoutFires ==
    /\ cpc = "wait"
    /\ cpc' = "done"
    /\ cTrace' = Append(cTrace, "elapsed")
    /\ checked' = checked \cup {cName}
    /\ UNCHANGED <<queryVars, existing, store, cName, existingIndexes, createLog, updateNoCheck>>

(***************************************************************************)
(* updatePinecone                                                          *)
(***************************************************************************)
\* The call: const index = client.Index(indexName), then the loop head.  The
\* caller awaits each pipeline function before it calls the next, and it
\* ingests again, into the same index, only after an ingestion that completed.
UpdateCall(name) ==
    /\ upc \in {"idle", "done"}
    /\ cpc \in {"idle", "done"}
    /\ run < MaxRuns
    /\ run = 0 \/ name = uName
    /\ run' = run + 1
    /\ uName' = name
    /\ d' = 1
    /\ chunks' = <<>>
    /\ embeddingsArrays' = <<>>
    /\ idx' = 0
    /\ batch' = <<>>
    /\ uError' = NoError
    /\ upc' = "doc"
    /\ UNCHANGED <<queryVars, existing, store, createVars, docs, embedLog, upsertLog, checked,
                   heldAfter>>

\* for (const doc of docs): split the text, then call embedDocuments.
NextDoc ==
    /\ upc = "doc"
    /\ d <= Len(docs)
    /\ chunks' = createDocuments(docs[d].len)
    /\ embedLog' = Append(embedLog, [run |-> run, doc |-> d,
                                      n |-> Len(createDocuments(docs[d].len)),
                                      res |-> "pending"])
    /\ upc' = "embed"
    /\ UNCHANGED <<queryVars, existing, store, createVars, uName, docs, run, d,
                   embeddingsArrays, idx, batch, upsertLog, uError, checked, heldAfter>>

\* The loop over docs is exhausted: updatePinecone resolves.
UpdateReturn ==
    /\ upc = "doc"
    /\ d > Len(docs)
    /\ upc' = "done"
    /\ heldAfter' = Append(heldAfter, [name |-> uName, ids |-> {v.id : v \in store[uName]}])
    /\ UNCHANGED <<queryVars, existing, store, createVars, uName, docs, run, d, chunks,
                   embeddingsArrays, idx, batch, embedLog, upsertLog, uError, checked>>

\* embedDocuments resolves; the batch loop starts with an empty batch.
EmbedResolve ==
    /\ upc = "embed"
    /\ embeddingsArrays' =
          embedDocuments([k \in 1..Len(chunks) |-> ReplaceNewlines(chunks[k].pageContent)])
    /\ embedLog' = [embedLog EXCEPT ![Len(embedLog)].res = "ok"]
    /\ batch' = <<>>
    /\ idx' = 0
    /\ upc' = "loop"
    /\ UNCHANGED <<queryVars, existing, store, createVars, uName, docs, run, d, chunks,
                   upsertLog, uError, checked, heldAfter>>

\* embedDocuments rejects: the error propagates out of updatePinecone.
EmbedReject(e) ==
    /\ upc = "embed"
    /\ embedLog' = [embedLog EXCEPT ![Len(embedLog)].res = e]
    /\ uError' = e
    /\ upc' = "rejected"
    /\ UNCHANGED <<queryVars, existing, store, createVars, uName, docs, run, d, chunks,
                   embeddingsArrays, idx, batch, upsertLog, checked, heldAfter>>

\* One iteration of the batch loop up to its await (or to idx++).
LoopIter ==
    /\ upc = "loop"
    /\ idx < Len(chunks)
    /\ LET vector == MakeVector(docs[d].source, chunks, embeddingsArrays, idx)
           newBatch == Append(batch, vector)
       IN  /\ batch' = newBatch
           /\ IF ShouldUpsert(newBatch, idx, Len(chunks))
              THEN /\ upsertLog' = Append(upsertLog,
                          [run |-> run, doc |-> d, name |-> uName,
                           vectors |-> newBatch, chk |-> uName \in checked,
                           res |-> "pending"])
                   /\ upc' = "upsert"
                   /\ idx' = idx
              ELSE /\ upsertLog' = upsertLog
                   /\ upc' = "loop"
                   /\ idx' = idx + 1
    /\ UNCHANGED <<queryVars, existing, store, createVars, uName, docs, run, d, chunks,
                   embeddingsArrays, embedLog, uError, checked, heldAfter>>

\* Mutant: what is left in the batch, be it nothing, is sent after the loop.
LoopExitFlush ==
    /\ upc = "loop"
    /\ idx >= Len(chunks)
    /\ upsertLog' = Append(upsertLog,
                           [run |-> run, doc |-> d, name |-> uName, vectors |-> batch,
                            chk |-> uName \in checked, res |-> "ok"])
    /\ d' = d + 1
    /\ upc' = "doc"
    /\ UNCHANGED <<queryVars, existing, store, createVars, uName, docs, run, chunks,
                   embeddingsArrays, idx, batch, embedLog, uError,
                   checked, heldAfter>>

\* The batch loop is exhausted: on to the next document.
LoopExit ==
    /\ upc = "loop"
    /\ idx >= Len(chunks)
    /\ d' = d + 1
    /\ upc' = "doc"
    /\ UNCHANGED <<queryVars, existing, store, createVars, uName, docs, run, chunks,
                   embeddingsArrays, idx, batch, embedLog, upsertLog, uError,
                   checked, heldAfter>>

\* index.upsert resolves: the index holds the batch; the batch is emptied.
UpsertResolve ==
    /\ upc = "upsert"
    /\ uName \in existing
    /\ store' = [store EXCEPT ![uName] = Upserted(@, batch)]
    /\ upsertLog' = [upsertLog EXCEPT ![Len(upsertLog)].res = "ok"]
    /\ batch' = <<>>
    /\ idx' = idx + 1
    /\ upc' = "loop"
    /\ UNCHANGED <<queryVars, existing, createVars, uName, docs, run, d, chunks,
                   embeddingsArrays, embedLog, uError, checked, heldAfter>>

\* Mutant: on a failed upsert the records this call has upserted are deleted.
UpsertRejectRollback(e) ==
    /\ upc = "upsert"
    /\ upsertLog' = [upsertLog EXCEPT ![Len(upsertLog)].res = e]
    /\ store' = [store EXCEPT ![uName] =
                    {v \in @ : \A k \in 1..Len(upsertLog) :
                        upsertLog[k].run = run =>
                            \A i \in 1..Len(upsertLog[k].vectors) :
                                upsertLog[k].vectors[i].id # v.id}]
    /\ uError' = e
    /\ upc' = "rejected"
    /\ UNCHANGED <<queryVars, existing, createVars, uName, docs, run, d, chunks,
                   embeddingsArrays, idx, batch, embedLog, checked, heldAfter>>

\* Mutant: the error is swallowed and the loop goes on.
UpsertRejectSwallow(e) ==
    /\ upc = "upsert"
    /\ upsertLog' = [upsertLog EXCEPT ![Len(upsertLog)].res = e]
    /\ batch' = <<>>
    /\ idx' = idx + 1
    /\ upc' = "loop"
    /\ UNCHANGED <<queryVars, existing, store, createVars, uName, docs, run, d, chunks,
                   embeddingsArrays, embedLog, uError, checked, heldAfter>>

\* index.upsert rejects: the error propagates out of updatePinecone.
UpsertReject(e) ==
    /\ upc = "upsert"
    /\ upsertLog' = [upsertLog EXCEPT ![Len(upsertLog)].res = e]
    /\ uError' = e
    /\ upc' = "rejected"
    /\ UNCHANGED <<queryVars, existing, store, createVars, uName, docs, run, d, chunks,
                   embeddingsArrays, idx, batch, embedLog, checked, heldAfter>>

NextIngest ==
    \/ \E name \in IndexNames : CreateCall(name)
    \/ ListResolve
    \/ CreateResolve
    \/ TimeoutFires
    \/ \E name \in IndexNames : UpdateCall(name)
    \/ NextDoc
    \/ UpdateReturn
    \/ EmbedResolve
    \/ \E e \in Errors : EmbedReject(e)
    \/ LoopIter
    \/ LoopExit
    \/ UpsertResolve
    \/ \E e \in Errors : UpsertReject(e)

SpecIngest == InitIngest /\ [][NextIngest]_vars

(***************************************************************************)
(* Properties of the ingestion.                                            *)
(***************************************************************************)
\* The vectors of the upsert calls issued for document p of call r,
\* concatenated in call order.
RECURSIVE VectorsUpTo(_, _, _)
VectorsUpTo(r, p, k) ==
    IF k = 0 THEN <<>>
    ELSE IF upsertLog[k].run = r /\ upsertLog[k].doc = p
         THEN VectorsUpTo(r, p, k - 1) \o upsertLog[k].vectors
         ELSE VectorsUpTo(r, p, k - 1)

DocVectors(r, p) == VectorsUpTo(r, p, Len(upsertLog))

\* The upsert calls issued for document p of call r, as positions in upsertLog.
DocCalls(r, p) == {k \in 1..Len(upsertLog) : upsertLog[k].run = r /\ upsertLog[k].doc = p}

\* The ids upserted by call r.
IdsOfRun(r) ==
    UNION {{upsertLog[k].vectors[i].id : i \in 1..Len(upsertLog[k].vectors)} :
              k \in {j \in 1..Len(upsertLog) : upsertLog[j].run = r}}

\* C5: every upsert call carries at least 1 and at most batchSize vectors;
\* when the processing of a document has completed without error the local
\* batch is empty and all the vectors of the document have been upserted.
C5_BatchBoundedAndFlushed ==
    /\ \A k \in 1..Len(upsertLog) :
          /\ Len(upsertLog[k].vectors) >= 1
          /\ Len(upsertLog[k].vectors) <= batchSize
    /\ (upc \in {"doc", "done"} /\ d > 1) =>
          /\ batch = <<>>
          /\ Len(DocVectors(run, d - 1)) = Len(chunks)
          /\ \A k \in DocCalls(run, d - 1) : upsertLog[k].res = "ok"

\* C5 witness: an 11-chunk document has been processed, with a full batch
\* followed by a final batch of one vector.
C5_Witness ==
    /\ upc = "doc"
    /\ d > 1
    /\ Len(chunks) = batchSize + 1
    /\ Len(upsertLog) >= 2
    /\ Len(upsertLog[Len(upsertLog)].vectors) = 1
    /\ Len(upsertLog[Len(upsertLog) - 1].vectors) = batchSize

\* C6: two completed ingestions of the same documents upsert the same set of
\* ids, and when they go to the same index the set of ids the index holds
\* after the later one equals the set it held after the earlier one.
C6_ReingestSameIds ==
    \A j \in 1..Len(heldAfter) : \A k \in 1..Len(heldAfter) :
        j < k =>
            /\ IdsOfRun(j) = IdsOfRun(k)
            /\ heldAfter[j].name = heldAfter[k].name =>
                  heldAfter[j].ids = heldAfter[k].ids

\* C6 witness: the documents were ingested twice into the same index and
\* more than a batch of ids was upserted.
C6_Witness ==
    /\ Len(heldAfter) >= 2
    /\ heldAfter[1].name = heldAfter[2].name
    /\ Cardinality(IdsOfRun(2)) > batchSize
    /\ heldAfter[2].ids = IdsOfRun(2)

\* C7: a failed embedDocuments or upsert call is the last call updatePinecone
\* issues: it is not retried, no embedding or upsert call follows it for the
\* same or a later document, and updatePinecone rejects with its error.
C7_FailedCallIsLast ==
    /\ \A k \in 1..Len(embedLog) :
          embedLog[k].res \in Errors =>
             /\ k = Len(embedLog)
             /\ upc = "rejected"
             /\ uError = embedLog[k].res
             /\ \A u \in 1..Len(upsertLog) :
                   ~(upsertLog[u].run = embedLog[k].run /\ upsertLog[u].doc >= embedLog[k].doc)
    /\ \A u \in 1..Len(upsertLog) :
          upsertLog[u].res \in Errors =>
             /\ u = Len(upsertLog)
             /\ upc = "rejected"
             /\ uError = upsertLog[u].res
             /\ \A k \in 1..Len(embedLog) :
                   ~(embedLog[k].run = upsertLog[u].run /\ embedLog[k].doc > upsertLog[u].doc)
    /\ \A j \in 1..Len(embedLog) : \A k \in 1..Len(embedLog) :
          (embedLog[j].run = embedLog[k].run /\ embedLog[j].doc = embedLog[k].doc) => j = k
    /\ \A j \in 1..Len(upsertLog) : \A k \in 1..Len(upsertLog) :
          (/\ upsertLog[j].run = upsertLog[k].run
           /\ upsertLog[j].doc = upsertLog[k].doc
           /\ upsertLog[j].vectors = upsertLog[k].vectors) => j = k
    /\ upc = "rejected" =>
          /\ uError \in Errors
          /\ \/ Len(embedLog) > 0 /\ embedLog[Len(embedLog)].res = uError
             \/ Len(upsertLog) > 0 /\ upsertLog[Len(upsertLog)].res = uError

\* C7 witness: the second batch of a document failed after the first batch
\* had been upserted, and updatePinecone has rejected.
C7_Witness ==
    /\ upc = "rejected"
    /\ Len(upsertLog) >= 2
    /\ upsertLog[Len(upsertLog)].res = "e2"
    /\ upsertLog[Len(upsertLog) - 1].res = "ok"
    /\ upsertLog[Len(upsertLog) - 1].doc = upsertLog[Len(upsertLog)].doc
    /\ d < Len(docs)

\* C8 as stated: no upsert is ever issued to an index name that has not been
\* checked or created before it.
C8_UpsertOnlyAfterCheck ==
    \A k \in 1..Len(upsertLog) : upsertLog[k].chk

\* C8 amended: updatePinecone issues its upserts to the index name it was
\* given without any check; an index is ensured only by a completed
\* createPineconeIndex call, which leaves the index existing (found listed,
\* or requested with the cosine metric, created and waited for), so that
\* every upsert issued after such a call for its name goes to an existing
\* index.
C8_EnsuredByCreatePineconeIndex ==
    /\ \A n \in checked : n \in existing
    /\ cpc = "done" => cName \in checked
    /\ cpc \in {"create", "wait"} =>
          /\ cName \notin existingIndexes
          /\ cName \notin checked
          /\ Len(createLog) > 0
          /\ createLog[Len(createLog)] = [name |-> cName, metric |-> "cosine"]
    /\ \A k \in 1..Len(upsertLog) :
          /\ upsertLog[k].chk => upsertLog[k].name \in existing
          /\ upsertLog[k].run = run => upsertLog[k].name = uName

\* C8 witness: an index was created by createPineconeIndex and a batch was
\* then upserted to it.
C8_Witness ==
    /\ Len(upsertLog) > 0
    /\ upsertLog[1].chk
    /\ upsertLog[1].res = "ok"
    /\ \E c \in 1..Len(createLog) : createLog[c].name = upsertLog[1].name

\* C9: the vectors upserted for a processed document with source s and n
\* chunks are, in order, the n records with ids s_0 .. s_(n-1), the record
\* s_k carrying the k-th embedding and the pageContent of the k-th chunk.
C9_VectorsOfDocument ==
    \A p \in 1..Len(docs) :
        (run >= 1 /\ upc # "idle" /\ p < d) =>
            LET s == docs[p].source
                chs == createDocuments(docs[p].len)
                embs == embedDocuments([k \in 1..Len(chs) |->
                                           ReplaceNewlines(chs[k].pageContent)])
                vs == DocVectors(run, p)
            IN  /\ Len(vs) = Len(chs)
                /\ \A k \in 1..Len(vs) :
                      /\ vs[k].id = s \o <<"_">> \o Decimal(k - 1)
                      /\ vs[k].values = embs[k]
                      /\ vs[k].metadata.pageContent = chs[k].pageContent
                /\ Len(chs) = 3 =>
                      [k \in 1..3 |-> vs[k].id] =
                          <<s \o <<"_", "0">>, s \o <<"_", "1">>, s \o <<"_", "2">>>>
                /\ Len(chs) = 11 => vs[11].id = s \o <<"_", "1", "0">>

\* C9 witness: a 3-chunk document with source a has been ingested.
C9_Witness ==
    /\ upc = "done"
    /\ Len(docs) >= 1
    /\ docs[1] = [source |-> <<"a">>, len |-> 2500]
    /\ [k \in 1..3 |-> DocVectors(run, 1)[k].id] =
          <<<<"a", "_", "0">>, <<"a", "_", "1">>, <<"a", "_", "2">>>>


(***************************************************************************)
(* queryPineconeVectorStoreAndQueryLLM                                     *)
(***************************************************************************)
\* The ingestion functions are not running.
IngestQuiet ==
    /\ existing = {"i1"}
    /\ store = [n \in IndexNames |-> {}]
    /\ cpc = "idle"
    /\ cName = "i1"
    /\ existingIndexes = {}
    /\ createLog = <<>>
    /\ cTrace = <<>>
    /\ upc = "idle"
    /\ uName = "i1"
    /\ docs = <<>>
    /\ run = 0
    /\ d = 1
    /\ chunks = <<>>
    /\ embeddingsArrays = <<>>
    /\ idx = 0
    /\ batch = <<>>
    /\ embedLog = <<>>
    /\ upsertLog = <<>>
    /\ uError = NoError
    /\ checked = {}
    /\ heldAfter = <<>>

\* Mutant: the page contents are concatenated without a separator.
RECURSIVE JoinNoSeparator(_)
JoinNoSeparator(ms) == IF ms = <<>> THEN <<>> ELSE <<ms[1]>> \o JoinNoSeparator(Tail(ms))

\* matches.map((match) => match.metadata.pageContent).join(" ")
RECURSIVE Join(_)
Join(ms) ==
    IF ms = <<>> THEN <<>>
    ELSE IF Len(ms) = 1 THEN <<ms[1]>>
    ELSE <<ms[1], " ">> \o Join(Tail(ms))

\* Mutant: one writer shared by all the calls.
WriterShared(r) == IF st["r1"].state # "none" THEN "r1" ELSE r

\* The writer the callbacks of a request close over: the one created by
\* that call.
Writer(r) == r

\* new OpenAIEmbeddings().embedQuery(question), as issued.
EmbedQueryCall ==
    [op |-> "embedQuery", req |-> [text |-> "question"], res |-> "pending"]

\* index.query({queryRequest: {topK: 10, vector, includeMetadata: true,
\* includeValues: true}}), as issued.
IndexQueryCall ==
    [op |-> "query",
     req |-> [topK |-> 10, vector |-> "queryEmbedding", includeMetadata |-> TRUE,
              includeValues |-> TRUE],
     res |-> "pending"]

\* The call issued last has resolved ("ok") or rejected (the error).
Resolved(log, res) == [log EXCEPT ![Len(log)].res = res]

\* The call: index = client.Index(indexName), embedQuery issued.
QueryCall(r) ==
    /\ qpc[r] = "idle"
    /\ qpc' = [qpc EXCEPT ![r] = "embed"]
    /\ svcLog' = [svcLog EXCEPT ![r] = Append(@, EmbedQueryCall)]
    /\ UNCHANGED <<ingestVars, queryResponse, qError, callLog, llm, llmError,
                   generated, late, st>>

\* embedQuery resolves: index.query is issued.
EmbedQueryResolve(r) ==
    /\ qpc[r] = "embed"
    /\ qpc' = [qpc EXCEPT ![r] = "query"]
    /\ svcLog' = [svcLog EXCEPT ![r] = Append(Resolved(@, "ok"), IndexQueryCall)]
    /\ UNCHANGED <<ingestVars, queryResponse, qError, callLog, llm, llmError,
                   generated, late, st>>

\* Mutant: a rejected call is issued once more before the call gives up.
ServiceRejectRetry(r, e) ==
    /\ qpc[r] \in {"embed", "query"}
    /\ LET last == svcLog[r][Len(svcLog[r])]
           tried == Cardinality({k \in 1..Len(svcLog[r]) : svcLog[r][k].op = last.op})
       IN  IF tried < 2
           THEN /\ svcLog' = [svcLog EXCEPT ![r] =
                                  Append(Resolved(@, e), [last EXCEPT !.res = "pending"])]
                /\ UNCHANGED <<qpc, qError>>
           ELSE /\ qpc' = [qpc EXCEPT ![r] = "rejected"]
                /\ qError' = [qError EXCEPT ![r] = e]
                /\ svcLog' = [svcLog EXCEPT ![r] = Resolved(@, e)]
    /\ UNCHANGED <<ingestVars, queryResponse, callLog, llm, llmError,
                   generated, late, st>>

\* embedQuery or index.query rejects: the call rejects with the error.
ServiceReject(r, e) ==
    /\ qpc[r] \in {"embed", "query"}
    /\ qpc' = [qpc EXCEPT ![r] = "rejected"]
    /\ qError' = [qError EXCEPT ![r] = e]
    /\ svcLog' = [svcLog EXCEPT ![r] = Resolved(@, e)]
    /\ UNCHANGED <<ingestVars, queryResponse, callLog, llm, llmError,
                   generated, late, st>>

\* Mutant: the stream is created and the chain called whatever the matches.
IndexQueryResolveAlways(r, ms) ==
    /\ qpc[r] = "query"
    /\ queryResponse' = [queryResponse EXCEPT ![r] = ms]
    /\ svcLog' = [svcLog EXCEPT ![r] = Resolved(@, "ok")]
    /\ st' = [st EXCEPT ![r] = NewStream]
    /\ callLog' = [callLog EXCEPT ![r] = Append(@, Join(ms))]
    /\ llm' = [llm EXCEPT ![r] = "running"]
    /\ qpc' = [qpc EXCEPT ![r] = "returned"]
    /\ UNCHANGED <<ingestVars, qError, llmError, generated, late>>

\* index.query resolves.  With matches: the stream, its writer and the llm
\* are created, chain.call is issued without being awaited and the readable
\* side is returned.  Without matches the call returns undefined.
IndexQueryResolve(r, ms) ==
    /\ qpc[r] = "query"
    /\ queryResponse' = [queryResponse EXCEPT ![r] = ms]
    /\ svcLog' = [svcLog EXCEPT ![r] = Resolved(@, "ok")]
    /\ IF Len(ms) # 0
       THEN /\ st' = [st EXCEPT ![r] = NewStream]
            /\ callLog' = [callLog EXCEPT ![r] = Append(@, Join(ms))]
            /\ llm' = [llm EXCEPT ![r] = "running"]
            /\ qpc' = [qpc EXCEPT ![r] = "returned"]
       ELSE /\ qpc' = [qpc EXCEPT ![r] = "noStream"]
            /\ UNCHANGED <<st, callLog, llm>>
    /\ UNCHANGED <<ingestVars, qError, llmError, generated, late>>

\* The completion service generates a token: handleLLMNewToken is invoked
\* and runs up to its `await writer.ready`.
LLMNewToken(r, t) ==
    /\ llm[r] = "running"
    /\ Len(generated[r]) < MaxTokens
    /\ t = TokenOf(r, Len(generated[r]) + 1)
    /\ generated' = [generated EXCEPT ![r] = Append(@, t)]
    /\ st' = [st EXCEPT ![r] = Await(@, Handler("token", t, NoError))]
    /\ UNCHANGED <<ingestVars, svcLog, qpc, queryResponse, qError, callLog, llm, llmError, late>>

\* Mutant: handleLLMEnd closes the writer without awaiting writer.ready.
LLMEndNoAwait(r) ==
    /\ llm[r] = "running"
    /\ llm' = [llm EXCEPT ![r] = "ended"]
    /\ st' = [st EXCEPT ![r] = Settle(Close(@))]
    /\ UNCHANGED <<ingestVars, svcLog, qpc, queryResponse, qError, callLog, llmError,
                   generated, late>>

\* The completion finishes: handleLLMEnd is invoked.
LLMEnd(r) ==
    /\ llm[r] = "running"
    /\ llm' = [llm EXCEPT ![r] = "ended"]
    /\ st' = [st EXCEPT ![r] = Await(@, Handler("end", <<>>, NoError))]
    /\ UNCHANGED <<ingestVars, svcLog, qpc, queryResponse, qError, callLog, llmError,
                   generated, late>>

\* The completion fails: handleLLMError is invoked with the error.
LLMError(r, e) ==
    /\ llm[r] = "running"
    /\ llm' = [llm EXCEPT ![r] = "failed"]
    /\ llmError' = [llmError EXCEPT ![r] = e]
    /\ st' = [st EXCEPT ![r] = Await(@, Handler("error", <<>>, e))]
    /\ UNCHANGED <<ingestVars, svcLog, qpc, queryResponse, qError, callLog, generated, late>>

\* A callback delivered after the run has ended or failed.
LateCallback(r, h) ==
    /\ llm[r] \in {"ended", "failed"}
    /\ Len(late[r]) < MaxLate
    /\ late' = [late EXCEPT ![r] = Append(@, h.kind)]
    /\ st' = [st EXCEPT ![r] = Await(@, h)]
    /\ UNCHANGED <<ingestVars, svcLog, qpc, queryResponse, qError, callLog, llm, llmError,
                   generated>>

LateHandlers ==
    {Handler("token", t, NoError) : t \in Tokens}
        \cup {Handler("end", <<>>, NoError)}
        \cup {Handler("error", <<>>, e) : e \in Errors}

\* The continuation of the callback that has waited longest runs: the rest
\* of handleLLMNewToken, handleLLMEnd or handleLLMError.
RunJob(r) ==
    /\ st[r].jobs # <<>>
    /\ LET j == Head(st[r].jobs)
           popped == [st EXCEPT ![r].jobs = Tail(@)]
       IN  st' = [popped EXCEPT ![Writer(r)] = Settle(Continue(@, j))]
    /\ UNCHANGED <<ingestVars, svcLog, qpc, queryResponse, qError, callLog, llm, llmError,
                   generated, late>>

\* The stream processes the write in flight.
SinkProgress(r) ==
    /\ st[r].inflight # <<>>
    /\ ~st[r].tbp
    /\ st' = [st EXCEPT ![r] = Settle(SinkWrite(@))]
    /\ UNCHANGED <<ingestVars, svcLog, qpc, queryResponse, qError, callLog, llm, llmError,
                   generated, late>>

\* The consumer of the returned stream reads; it has one read outstanding
\* at a time.
ConsumerRead(r) ==
    /\ qpc[r] = "returned"
    /\ st[r].consumerEnd = "reading"
    /\ ~st[r].readPending
    /\ st' = [st EXCEPT ![r] = Settle(Read(@))]
    /\ UNCHANGED <<ingestVars, svcLog, qpc, queryResponse, qError, callLog, llm, llmError,
                   generated, late>>

\* A step of request r.
QueryStep(r) ==
    \/ QueryCall(r)
    \/ EmbedQueryResolve(r)
    \/ \E e \in Errors : ServiceReject(r, e)
    \/ \E ms \in QueryResults : IndexQueryResolve(r, ms)
    \/ \E t \in Tokens : LLMNewToken(r, t)
    \/ LLMEnd(r)
    \/ \E e \in Errors : LLMError(r, e)
    \/ RunJob(r)
    \/ SinkProgress(r)
    \/ ConsumerRead(r)

\* Requests are served concurrently.
NextQuery == \E r \in Requests : QueryStep(r)

InitQuerySpec == IngestQuiet /\ InitQuery

\* The completion service keeps to its contract: tokens, then one end or
\* one error.
SpecQuery == InitQuerySpec /\ [][NextQuery]_vars

\* One request on its own.
NextOne == QueryStep("r1")

SpecOne == InitQuerySpec /\ [][NextOne]_vars

\* One request to which the completion service may deliver further callbacks
\* after the end.
NextAny ==
    \/ QueryStep("r1")
    \/ \E h \in LateHandlers : LateCallback("r1", h)

SpecAny == InitQuerySpec /\ [][NextAny]_vars

\* One request whose consumer keeps reading, whose callbacks run and whose
\* stream makes progress.
SpecLive ==
    /\ InitQuerySpec
    /\ [][NextOne]_vars
    /\ WF_vars(RunJob("r1"))
    /\ WF_vars(SinkProgress("r1"))
    /\ WF_vars(ConsumerRead("r1"))

(***************************************************************************)
(* Properties of the query.                                                *)
(***************************************************************************)
\* What the stream of a request has received: the chunks read, in flight
\* and queued.
Received(s) == s.consumed \o s.inflight \o s.queue

\* C1: a call whose index query returned zero matches has completed without
\* throwing, returned no stream (undefined), and no completion call has been
\* issued for it.
C1_NoMatchNoStream ==
    \A r \in Requests :
        (qpc[r] \in {"noStream", "returned"} /\ Len(queryResponse[r]) = 0) =>
            /\ qpc[r] = "noStream"
            /\ qError[r] = NoError
            /\ st[r] = NoStream
            /\ callLog[r] = <<>>
            /\ llm[r] = "none"
            /\ generated[r] = <<>>

\* C1 witness: a call returned undefined while the other request streamed
\* to its end.
C1_Witness ==
    /\ qpc["r1"] = "noStream"
    /\ st["r2"].state = "closed"

\* C2 as stated: once the consumer has read a stream to its end, the chunks
\* it has read are the encoded tokens generated, all of them, in order.
C2_ReadEqualsGenerated ==
    \A r \in Requests :
        st[r].consumerEnd \notin {"none", "reading"} =>
            st[r].consumed = EncodeAll(generated[r])

\* C2 amended: the chunks read are always a prefix of the encoded tokens
\* generated (same order, none duplicated); they are all of them when the
\* stream ends normally; a stream ends with an error only when the completion
\* failed, and then the tokens not yet read are dropped.
C2_ReadPrefixCompleteOnDone ==
    \A r \in Requests :
        /\ IsPrefix(st[r].consumed, EncodeAll(generated[r]))
        /\ st[r].consumerEnd = "done" =>
              /\ llm[r] = "ended"
              /\ st[r].consumed = EncodeAll(generated[r])
        /\ st[r].consumerEnd \in Errors =>
              /\ llm[r] = "failed"
              /\ st[r].consumerEnd = llmError[r]

\* C2 witness: the consumer has read the tokens of a completion, one of them
\* encoded in two bytes, and then done.
C2_Witness ==
    /\ st["r1"].consumerEnd = "done"
    /\ Len(st["r1"].consumed) >= 2
    /\ st["r1"].consumed[1] = <<72, 105>>
    /\ st["r1"].consumed[2] = <<195, 169>>

\* C3: whatever callbacks are delivered, the stream of a request only goes
\* Idle -> Streaming -> Closed or Aborted, and once Closed or Aborted nothing
\* of it changes again: it is never closed and aborted both, nor twice.
C3_StreamStateMachine ==
    [][\A r \in Requests :
          LET a == StreamState(st[r])
              b == StreamState(st'[r])
          IN  /\ \/ a = b
                 \/ <<a, b>> \in {<<"Idle", "Streaming">>,
                                  <<"Streaming", "Closed">>,
                                  <<"Streaming", "Aborted">>}
              /\ a \in {"Closed", "Aborted"} =>
                    /\ st'[r].state = st[r].state
                    /\ st'[r].rstate = st[r].rstate
                    /\ st'[r].storedError = st[r].storedError
                    /\ st'[r].consumed = st[r].consumed]_vars

\* C3 witness: handleLLMError was delivered after the end and has run, and
\* the stream is still closed.
C3_Witness ==
    /\ st["r1"].state = "closed"
    /\ llm["r1"] = "ended"
    /\ \E k \in 1..Len(late["r1"]) : late["r1"][k] = "error"
    /\ st["r1"].jobs = <<>>
    /\ st["r1"].waiters = <<>>

\* C4: with a consumer that keeps reading, the stream is eventually closed
\* when the completion has finished normally, and eventually aborted with
\* the error of the completion when it has failed, also when it failed
\* before any token.
C4_EventuallyTerminal ==
    \A r \in Requests :
        /\ (llm[r] = "ended") ~> (st[r].state = "closed" /\ st[r].rstate = "closed")
        /\ (llm[r] = "failed") ~>
              (/\ st[r].state = "errored"
               /\ st[r].rstate = "errored"
               /\ st[r].storedError = llmError[r])

\* C4 witness: the completion failed before any token and the stream is
\* aborted with its error, which the consumer has received.
C4_Witness ==
    /\ llm["r1"] = "failed"
    /\ generated["r1"] = <<>>
    /\ st["r1"].state = "errored"
    /\ st["r1"].storedError = llmError["r1"]
    /\ st["r1"].consumerEnd = llmError["r1"]

\* C10: the stream of a request receives only the tokens of its own
\* completion, in order, and a step that changes the stream of one request
\* changes nothing of the other request.
C10_RequestsIndependent ==
    /\ [](\A r \in Requests : IsPrefix(Received(st[r]), EncodeAll(generated[r])))
    /\ [][\A r \in Requests :
             st'[r] # st[r] =>
                \A q \in Requests \ {r} :
                    /\ st'[q] = st[q]
                    /\ generated'[q] = generated[q]
                    /\ llm'[q] = llm[q]
                    /\ qpc'[q] = qpc[q]]_vars

\* C10 witness: of two concurrent requests one stream was closed after all
\* its tokens were read and the other was aborted.
C10_Witness ==
    /\ st["r1"].state = "closed"
    /\ Len(st["r1"].consumed) >= 2
    /\ st["r2"].state = "errored"
    /\ Len(generated["r2"]) >= 1

\* C11: a failed embedQuery or index.query call is the last service call of
\* its request: it is not retried (each of the two calls is issued at most
\* once), the request rejects with the error of the failed call, no stream
\* is created for it and no completion call is issued.
C11_QueryFailurePropagates ==
    \A r \in Requests :
        /\ \A k \in 1..Len(svcLog[r]) :
              svcLog[r][k].res \in Errors =>
                 /\ k = Len(svcLog[r])
                 /\ qpc[r] = "rejected"
                 /\ qError[r] = svcLog[r][k].res
                 /\ st[r] = NoStream
                 /\ callLog[r] = <<>>
                 /\ llm[r] = "none"
                 /\ generated[r] = <<>>
        /\ \A j \in 1..Len(svcLog[r]) : \A k \in 1..Len(svcLog[r]) :
              svcLog[r][j].op = svcLog[r][k].op => j = k
        /\ qpc[r] = "rejected" =>
              /\ qError[r] \in Errors
              /\ Len(svcLog[r]) > 0
              /\ svcLog[r][Len(svcLog[r])].res = qError[r]
        /\ qpc[r] # "rejected" => qError[r] = NoError

\* C11 witness: the index query of one request failed after its embedQuery
\* had resolved, the embedQuery of the other request failed with another
\* error, and both requests have rejected.
C11_Witness ==
    /\ qpc["r1"] = "rejected"
    /\ Len(svcLog["r1"]) = 2
    /\ svcLog["r1"][1].res = "ok"
    /\ svcLog["r1"][2].op = "query"
    /\ svcLog["r1"][2].res = "e2"
    /\ qpc["r2"] = "rejected"
    /\ Len(svcLog["r2"]) = 1
    /\ svcLog["r2"][1].res = "e1"

\* C12: a createPineconeIndex call issues createIndex if and only if its
\* indexName is not in the list its own listIndexes call returned.  When it
\* creates, the request carries the cosine metric, the delay is started
\* after createIndex has resolved and the call returns only once the delay
\* has elapsed; when the name is listed the call issues no createIndex,
\* starts no delay and returns at once.
C12_CreateIffNotListed ==
    /\ cpc = "list" => cTrace = <<"listIndexes">>
    /\ cpc = "create" =>
          /\ cName \notin existingIndexes
          /\ cTrace = <<"listIndexes", "createIndex">>
    /\ cpc = "wait" =>
          /\ cName \notin existingIndexes
          /\ cTrace = <<"listIndexes", "createIndex", "setTimeout">>
    /\ cpc = "done" =>
          IF cName \in existingIndexes
          THEN cTrace = <<"listIndexes">>
          ELSE cTrace = <<"listIndexes", "createIndex", "setTimeout", "elapsed">>
    /\ (Len(cTrace) >= 2 /\ cTrace[2] = "createIndex") =>
          /\ Len(createLog) > 0
          /\ createLog[Len(createLog)] = [name |-> cName, metric |-> "cosine"]

\* C12 witness: a call has created an index and returned after the delay
\* while another index was already there.
C12_Witness ==
    /\ cpc = "done"
    /\ cTrace = <<"listIndexes", "createIndex", "setTimeout", "elapsed">>
    /\ cName = "i2"
    /\ existingIndexes = {"i1"}
    /\ createLog = <<[name |-> "i2", metric |-> "cosine"]>>

\* The index.query calls a request has issued, as positions in its svcLog.
IndexQueries(r) == {k \in 1..Len(svcLog[r]) : svcLog[r][k].op = "query"}

\* ctx is the page contents of the matches ms, in match order, with exactly
\* one space between two neighbours.
IsSpaceJoined(ctx, ms) ==
    /\ Len(ctx) = IF ms = <<>> THEN 0 ELSE 2 * Len(ms) - 1
    /\ \A k \in 1..Len(ms) : ctx[2 * k - 1] = ms[k]
    /\ \A k \in 1..(Len(ms) - 1) : ctx[2 * k] = " "

\* C13: a call whose embedQuery has resolved issues exactly one index query
\* (and no call ever issues more than one), with topK = 10 and metadata
\* included; when the query has returned m >= 1 matches exactly one
\* completion call has been issued, its context is the page contents of the
\* matches in match order separated by single spaces, and the call has
\* returned the readable side of the stream it created.  The concatenation
\* is also checked on lists of zero, one, two and three matches.
C13_OneQueryOneCompletion ==
    /\ \A r \in Requests :
          /\ Cardinality(IndexQueries(r)) <= 1
          /\ \A k \in IndexQueries(r) :
                /\ svcLog[r][k].req.topK = 10
                /\ svcLog[r][k].req.includeMetadata
          /\ (\E k \in 1..Len(svcLog[r]) :
                 svcLog[r][k].op = "embedQuery" /\ svcLog[r][k].res = "ok")
                => Cardinality(IndexQueries(r)) = 1
          /\ qpc[r] \in {"returned", "noStream"} =>
                /\ Cardinality(IndexQueries(r)) = 1
                /\ \A k \in IndexQueries(r) : svcLog[r][k].res = "ok"
          /\ Len(callLog[r]) <= 1
          /\ (qpc[r] \in {"returned", "noStream"} /\ Len(queryResponse[r]) >= 1) =>
                /\ qpc[r] = "returned"
                /\ Len(callLog[r]) = 1
                /\ IsSpaceJoined(callLog[r][1], queryResponse[r])
                /\ st[r].state # "none"
                /\ st[r].rstate # "none"
          /\ callLog[r] # <<>> => qpc[r] = "returned"
    /\ \A ms \in {<<>>, <<"p">>, <<"q", "p">>, <<"p", "q", "p">>, <<"q", "q", "p">>} :
          IsSpaceJoined(Join(ms), ms)

\* C13 witness: a call whose query returned the matches p and q has issued
\* the completion call with the context "p q", has returned its stream, and
\* the consumer has read from it.
C13_Witness ==
    /\ qpc["r1"] = "returned"
    /\ queryResponse["r1"] = <<"p", "q">>
    /\ callLog["r1"] = <<<<"p", " ", "q">>>>
    /\ Cardinality(IndexQueries("r1")) = 1
    /\ Len(st["r1"].consumed) >= 1

\* The vectors 0 .. n-1 of document p, in index order.
ExpectedVectors(p) ==
    LET chs == createDocuments(docs[p].len)
        embs == embedDocuments([k \in 1..Len(chs) |-> ReplaceNewlines(chs[k].pageContent)])
    IN  [k \in 1..Len(chs) |-> MakeVector(docs[p].source, chs, embs, k - 1)]

\* The number of upsert calls issued before call k for the same document of
\* the same updatePinecone call.
EarlierCalls(k) ==
    Cardinality({j \in 1..(k - 1) : /\ upsertLog[j].run = upsertLog[k].run
                                    /\ upsertLog[j].doc = upsertLog[k].doc})

\* C14: whenever updatePinecone stands between two documents, has returned
\* or has failed, the j-th batch it has upserted for a document is the slice
\* of the vectors of that one document that starts at index j * batchSize and
\* ends at the last index of the document or batchSize vectors later,
\* whichever comes first; the local batch only ever holds vectors of the
\* current document; and for a document with n chunks processed without
\* error the batches concatenated in call order are the vectors 0 .. n-1,
\* sent in exactly ceil(n / batchSize) calls.
C14_BatchesPartitionDocument ==
    /\ upc \in {"doc", "done", "rejected"} =>
          \A p \in 1..Len(docs) :
              LET ev == ExpectedVectors(p)
              IN  \A k \in DocCalls(run, p) :
                      LET j == EarlierCalls(k)
                      IN  /\ j * batchSize < Len(ev)
                          /\ upsertLog[k].vectors =
                                SubSeq(ev, j * batchSize + 1,
                                       Min((j + 1) * batchSize, Len(ev)))
    /\ \A k \in 1..Len(upsertLog) : upsertLog[k].doc \in 1..Len(docs)
    /\ upc = "upsert" => batch = upsertLog[Len(upsertLog)].vectors
    /\ upc = "loop" =>
          LET sent == Len(DocVectors(run, d))
          IN  /\ Len(batch) = idx - sent
              /\ Len(batch) < batchSize
              /\ \A k \in 1..Len(batch) :
                    /\ batch[k].id = VectorId(docs[d].source, sent + k - 1)
                    /\ batch[k].values = embeddingsArrays[sent + k]
                    /\ batch[k].metadata.pageContent = chunks[sent + k].pageContent
    /\ \A p \in 1..Len(docs) :
          (run >= 1 /\ upc \in {"doc", "done", "rejected"} /\ p < d) =>
             LET n == Len(createDocuments(docs[p].len))
             IN  /\ DocVectors(run, p) = ExpectedVectors(p)
                 /\ Cardinality(DocCalls(run, p)) = (n + batchSize - 1) \div batchSize
                 /\ \A k \in DocCalls(run, p) : upsertLog[k].res = "ok"

\* C14 witness: a document of 11 chunks and a document of 10 chunks with
\* another source were ingested in three upsert calls of 10, 1 and 10
\* vectors.
C14_Witness ==
    /\ upc = "done"
    /\ run = 1
    /\ docs = <<[source |-> <<"a">>, len |-> 10500],
                [source |-> <<"a", "_", "1">>, len |-> 10000]>>
    /\ [k \in 1..Len(upsertLog) |-> Len(upsertLog[k].vectors)] = <<10, 1, 10>>
    /\ [k \in 1..Len(upsertLog) |-> upsertLog[k].doc] = <<1, 1, 2>>

\* The token callbacks of a stream that have not yet reached their write.
PendingTokenWrites(s) ==
    {k \in 1..Len(s.waiters) : s.waiters[k].kind = "token"}
        \cup {k \in 1..Len(s.jobs) : s.jobs[k].h.kind = "token"}

\* C15 as stated: when the close or the abort of a stream has taken effect,
\* the writes of all the tokens generated for it have completed.
C15_WritesCompleteBeforeTerminal ==
    \A r \in Requests :
        st[r].state \in {"closed", "errored"} =>
            st[r].consumed = EncodeAll(generated[r])

\* C15 amended: once handleLLMEnd has issued the close or handleLLMError the
\* abort, every token generated has been passed to writer.write and no token
\* callback is left to write; a stream is closed only when all these writes
\* have completed; a stream is aborted with the writes still queued or in
\* flight discarded, so that what was read is a prefix of the tokens; and
\* once closed or aborted a stream receives nothing more.
C15_NoWriteAfterCloseOrAbort ==
    /\ [](\A r \in Requests :
            LET s == st[r]
            IN  /\ (s.closeReq \/ s.state \in {"erroring", "errored", "closed"}) =>
                      /\ llm[r] \in {"ended", "failed"}
                      /\ PendingTokenWrites(s) = {}
                /\ (s.state = "erroring" \/ (s.state = "writable" /\ s.closeReq)) =>
                      Received(s) = EncodeAll(generated[r])
                /\ s.state = "closed" =>
                      /\ llm[r] = "ended"
                      /\ s.consumed = EncodeAll(generated[r])
                /\ s.state = "errored" =>
                      /\ llm[r] = "failed"
                      /\ s.queue = <<>>
                      /\ s.inflight = <<>>
                      /\ IsPrefix(s.consumed, EncodeAll(generated[r])))
    /\ [][\A r \in Requests :
             st[r].state \in {"closed", "errored"} =>
                /\ Received(st'[r]) = Received(st[r])
                /\ generated'[r] = generated[r]]_vars

\* C15 witness: a stream was aborted while token writes were pending, which
\* were discarded, and the stream of the other request was closed after all
\* its tokens had been read.
C15_Witness ==
    /\ st["r1"].state = "errored"
    /\ Len(st["r1"].consumed) >= 1
    /\ Len(st["r1"].consumed) < Len(generated["r1"])
    /\ st["r1"].jobs = <<>>
    /\ st["r2"].state = "closed"
    /\ Len(st["r2"].consumed) >= 2

\* The batches of a vector sequence: consecutive slices of batchSize vectors,
\* the last one possibly shorter.
RECURSIVE Batches(_)
Batches(vs) ==
    IF vs = <<>> THEN <<>>
    ELSE <<SubSeq(vs, 1, Min(batchSize, Len(vs)))>>
            \o Batches(SubSeq(vs, batchSize + 1, Len(vs)))

\* The upsert sequence of the documents 1 .. p: document order, and batch
\* order within a document.
RECURSIVE UpsertSequence(_)
UpsertSequence(p) ==
    IF p = 0 THEN <<>>
    ELSE LET bs == Batches(ExpectedVectors(p))
         IN  UpsertSequence(p - 1) \o [k \in 1..Len(bs) |-> [doc |-> p, vectors |-> bs[k]]]

\* What the index called name holds after the first k upsert calls: the
\* records of those that completed, a later record replacing an earlier one
\* with the same id.
RECURSIVE HeldAfterCalls(_, _)
HeldAfterCalls(k, name) ==
    IF k = 0 THEN {}
    ELSE IF upsertLog[k].name = name /\ upsertLog[k].res = "ok"
         THEN Upserted(HeldAfterCalls(k - 1, name), upsertLog[k].vectors)
         ELSE HeldAfterCalls(k - 1, name)

\* The upsert calls of the current updatePinecone call, in order.
CallsOfRun == SelectSeq(upsertLog, LAMBDA c : c.run = run)

\* C16: when updatePinecone has failed, every index holds exactly the
\* records of the upsert calls that completed; the upsert calls of the failed
\* call are an initial part of the upsert sequence of its documents, all of
\* them completed except the last if that is the one that failed, so that no
\* call for a later batch or document was issued; nothing the completed
\* calls upserted is missing, and on an index that was empty before the call
\* no other record is present.
C16_FailureKeepsCompletedPrefix ==
    upc = "rejected" =>
        LET cs == CallsOfRun
            us == UpsertSequence(Len(docs))
            m == Cardinality({k \in 1..Len(cs) : cs[k].res = "ok"})
        IN  /\ \A n \in IndexNames : store[n] = HeldAfterCalls(Len(upsertLog), n)
            /\ Len(cs) <= Len(us)
            /\ \A k \in 1..Len(cs) :
                  /\ cs[k].doc = us[k].doc
                  /\ cs[k].vectors = us[k].vectors
                  /\ k < Len(cs) => cs[k].res = "ok"
            /\ m \in {Len(cs) - 1, Len(cs)}
            /\ \A k \in 1..m :
                  \A i \in 1..Len(us[k].vectors) :
                     \E v \in store[uName] : v.id = us[k].vectors[i].id
            /\ run = 1 =>
                  {v.id : v \in store[uName]} =
                      UNION {{us[k].vectors[i].id : i \in 1..Len(us[k].vectors)} :
                                k \in 1..m}

\* C16 witness: the first call on an empty index failed at the second batch
\* of its second document: the index holds the 10 records of the first
\* document and the 10 of the first batch of the second, and not the record
\* of the failed batch.
C16_Witness ==
    /\ upc = "rejected"
    /\ run = 1
    /\ docs = <<[source |-> <<"a", "_", "1">>, len |-> 10000],
                [source |-> <<"a">>, len |-> 10500]>>
    /\ Len(upsertLog) = 3
    /\ upsertLog[3].res = "e1"
    /\ Cardinality(store[uName]) = 2 * batchSize
    /\ \A v \in store[uName] : v.id # <<"a", "_", "1", "0">>

\* Document p is one the chunker splits into zero chunks.
IsEmptyDoc(p) == createDocuments(docs[p].len) = <<>>

\* C17: no upsert call is ever issued for a document of zero chunks and no
\* call carries an empty batch; when the embedding of such a document has
\* resolved, the next step of updatePinecone moves on to the next document
\* without any call and without failing; and a call that has returned has
\* gone through every document, those after a zero-chunk document included.
C17_EmptyDocumentSkipped ==
    /\ [](/\ \A k \in 1..Len(upsertLog) : upsertLog[k].vectors # <<>>
          /\ \A p \in 1..Len(docs) :
                IsEmptyDoc(p) => \A k \in 1..Len(upsertLog) : upsertLog[k].doc # p
          /\ (upc = "loop" /\ IsEmptyDoc(d)) =>
                 /\ chunks = <<>>
                 /\ batch = <<>>
          /\ upc = "done" =>
                 \A p \in 1..Len(docs) :
                     \E k \in 1..Len(embedLog) :
                         /\ embedLog[k].run = run
                         /\ embedLog[k].doc = p
                         /\ embedLog[k].res = "ok")
    /\ [][(upc = "loop" /\ upc' # upc /\ IsEmptyDoc(d)) =>
             /\ upc' = "doc"
             /\ d' = d + 1
             /\ upsertLog' = upsertLog
             /\ store' = store
             /\ uError' = NoError]_vars

\* C17 witness: a zero-chunk document followed by a 3-chunk document was
\* ingested: one embedding call for each, and the only upsert call is the
\* one for the second document.
C17_Witness ==
    /\ upc = "done"
    /\ run = 1
    /\ docs = <<[source |-> <<"a", "_", "1">>, len |-> 0],
                [source |-> <<"a">>, len |-> 2500]>>
    /\ [k \in 1..Len(embedLog) |-> embedLog[k].n] = <<0, 3>>
    /\ [k \in 1..Len(upsertLog) |-> upsertLog[k].doc] = <<2>>
    /\ Cardinality(store[uName]) = 3

====
